---- MODULE Spec2Model ----
(***************************************************************************)
(* CABnis: compacted A-Bruijn graph construction from a set of solid       *)
(* k-mers.  The module models the k-mer codec used by the program, the     *)
(* gap-tolerant oracle (is_solid / successors / predecessors), the visited *)
(* set, the unitig extractor (write_unitig / build_tig), the unitig graph  *)
(* and the link enumeration.                                               *)
(***************************************************************************)
EXTENDS Integers, Sequences, FiniteSets, TLC

\* k-mer size of the run (field k of Graph / Kmer / Viewed); odd, as the
\* program requires.
K == 3

\* Largest number of solid canonical k-mers in the solidity store (pipeline).
MaxSolid == 3

\* Largest number of solid canonical k-mers in the store probed by the oracle
\* specification.
MaxSolidOracle == 2

\* Largest number of solid canonical k-mers in the store of the runs checked
\* for termination.
MaxSolidLive == 2

\* Largest number of solid canonical k-mers in the store given to the k-mer
\* graph writers.
MaxSolidGfa == 2

\* Largest k-mer size on which the codec is probed.
MaxCodecK == 4

\* Longest tig sequence that is recorded exactly; a walk that never stops keeps
\* running with its sequence cut at this length.
MaxTigLen == 16

\* Largest max_deep of the runs that explore the oracle beyond k - 1: the
\* default of the command line.
MaxDeep == 5

\* Largest number of solid canonical k-mers in those runs.
MaxSolidDeep == 2

VARIABLES
    solidity,      \* Graph.solidity: set of set bit positions of the bit vector
    max_deep,      \* Graph.max_deep
    oracle,        \* which oracle implementation build_tig is linked against
    pc,            \* position of the run
    kmer,          \* seed loop variable of write_unitig
    visited,       \* Viewed.bitvec: set of set bit positions
    seed,          \* build_tig argument kmer
    current,       \* build_tig local
    begin,         \* build_tig local
    tig,           \* build_tig local: sequence of nucleotides
    walk,          \* k-mers consumed by the walk, left to right
    nb_pred,       \* number of predecessors at the break point of the left loop
    nb_succ,       \* number of successors at the break point of the right loop
    tig_counter,   \* write_unitig local
    fasta,         \* records written to the unitig FASTA writer
    tig_walks,     \* for each record of fasta, the k-mers its walk consumed
    ends2tig,      \* write_unitig local: endpoint pair -> tig ids
    ext_nodes,     \* write_unitig local
    tig_nodes,     \* write_unitig local
    unitig_graph,  \* petgraph UnGraphMap<Node, Edge>: [nodes, edges]
    links,         \* results of link enumeration
    lap,           \* parity of the loop iterations made beyond MaxTigLen k-mers
    kmer_gfa,      \* outputs of the k-mer graph writers, one entry per run
    main_run,      \* main: the files it meets, the stages done and its result
    query,         \* oracle specification: the operation applied and its input
    answer         \* oracle specification: the value returned

vars == <<solidity, max_deep, oracle, pc, kmer, visited, seed, current, begin,
          tig, walk, nb_pred, nb_succ, tig_counter, fasta, tig_walks, ends2tig,
          ext_nodes, tig_nodes, unitig_graph, links, lap, kmer_gfa, main_run,
          query, answer>>

-----------------------------------------------------------------------------
(* K-mer codec: the functions of cocktail::kmer the program calls.          *)

\* All 2k-bit values.
Kmers == 0 .. (4^K - 1)

\* i-th nucleotide of x, counted from the last one (the low 2 bits).
nuc(x, i) == (x \div (4^i)) % 4

nuc2bit_alphabetical(c) ==
    CASE c = "A" -> 0 [] c = "C" -> 1 [] c = "G" -> 2 [] c = "T" -> 3

\* A=00, C=01, T=10, G=11.
nuc2bit(c) == CASE c = "A" -> 0 [] c = "C" -> 1 [] c = "T" -> 2 [] c = "G" -> 3

bit2nuc(b) == CASE b = 0 -> "A" [] b = 1 -> "C" [] b = 2 -> "T" [] b = 3 -> "G"

RECURSIVE seq2bit(_)
seq2bit(s) ==
    IF Len(s) = 0 THEN 0
    ELSE 4 * seq2bit(SubSeq(s, 1, Len(s) - 1)) + nuc2bit(s[Len(s)])

kmer2seq(x, k) == [i \in 1..k |-> bit2nuc(nuc(x, k - i))]

\* Complement of one nucleotide: the high bit of the pair is flipped.
comp(n) == (n + 2) % 4

RECURSIVE revcomp_from(_, _, _)
revcomp_from(x, k, i) ==
    IF i = k THEN 0
    ELSE comp(nuc(x, i)) * 4^(k - 1 - i) + revcomp_from(x, k, i + 1)

revcomp(x, k) == revcomp_from(x, k, 0)

RECURSIVE count_ones(_)
count_ones(x) == IF x = 0 THEN 0 ELSE (x % 2) + count_ones(x \div 2)

parity_even(x) == count_ones(x) % 2 = 0

cannonical_noflip(x, k) == x

\* The strand with an even number of set bits.
cannonical(x, k) == IF parity_even(x) THEN x ELSE revcomp(x, k)

remove_two_bits(x) == x \div 4

\* Drops the bit that the parity of a canonical k-mer determines.
remove_first_bit(x) == x \div 2

get_kmer_space_size(k) == 2^(2*k - 1)

-----------------------------------------------------------------------------
(* Gap-tolerant oracle.  Three implementations exist in the tree:           *)
(*   "graph/kmer.rs"  graph::kmer::Graph                                    *)
(*   "graph.rs"       graph::Graph                                          *)
(*   "utils.rs"       utils::Kmer                                           *)

Versions == {"graph/kmer.rs", "graph.rs", "utils.rs"}

None == [some |-> FALSE, kmers |-> <<>>, deep |-> 0]

Some(ks, d) == [some |-> TRUE, kmers |-> ks, deep |-> d]

\* kmermasks[deep]: ((1 << 2k) - 1) >> 2(deep+1)
build_kmermasks(deep, k) == (4^k - 1) \div (4^(deep + 1))

\* subkmer[deep]: every packed word of deep+1 nucleotides, in the order of the
\* cartesian product over "ACTG".
build_subkmer(deep) == [i \in 1 .. 4^(deep + 1) |-> i - 1]

\* x & mask for a mask of the form 2^n - 1.
BitAnd(x, mask) == x % (mask + 1)

\* remove_first_bit(cannonical(x, k)) for every k-mer x: the bit position of x
\* in the solidity store and in the visited set.
key_of == [x \in Kmers |-> remove_first_bit(cannonical(x, K))]

\* revcomp(x, k) for every k-mer x.
revcomp_of == [x \in Kmers |-> revcomp(x, K)]

\* Graph::is_solid / Kmer::is_solid
is_solid(x) == key_of[x] \in solidity

\* Candidates of successors at loop index deep, in probing order.
succ_candidates(x, deep) ==
    LET prefix == BitAnd(x, build_kmermasks(deep, K)) * 4^(deep + 1)
    IN  [i \in 1 .. 4^(deep + 1) |-> prefix + build_subkmer(deep)[i]]

pred_candidates_appended(x, deep) ==
    LET prefix == BitAnd(x, build_kmermasks(deep, K)) * 4^(deep + 1)
    IN  [i \in 1 .. 4^(deep + 1) |-> prefix + build_subkmer(deep)[i]]

\* Candidates of predecessors at loop index deep, in probing order.
pred_candidates(x, deep) ==
    LET suffix == x \div (4^(deep + 1))
    IN  [i \in 1 .. 4^(deep + 1) |->
            build_subkmer(deep)[i] * 4^(K - (deep + 1)) + suffix]

succ_skip_self_only(ver, x, n) == n = x

\* The test that makes successors skip a candidate.
succ_skip(ver, x, n) ==
    IF ver = "graph/kmer.rs" THEN n = x \/ revcomp_of[n] = x ELSE FALSE

pred_skip_self_only(ver, x, n) == n = x

\* The test that makes predecessors skip a candidate.
pred_skip(ver, x, n) ==
    IF ver = "graph/kmer.rs" THEN n = x \/ revcomp_of[n] = x ELSE n = x

RECURSIVE successors_from(_, _, _)
successors_from(ver, x, deep) ==
    IF deep >= max_deep THEN None
    ELSE LET keep(n) == ~succ_skip(ver, x, n) /\ is_solid(n)
             exist_kmer == SelectSeq(succ_candidates(x, deep), keep)
         IN  IF exist_kmer # <<>> THEN Some(exist_kmer, deep + 1)
             ELSE successors_from(ver, x, deep + 1)

successors(ver, x) == successors_from(ver, x, 0)

RECURSIVE predecessors_from(_, _, _)
predecessors_from(ver, x, deep) ==
    IF deep >= max_deep THEN None
    ELSE LET keep(n) == ~pred_skip(ver, x, n) /\ is_solid(n)
             exist_kmer == SelectSeq(pred_candidates(x, deep), keep)
         IN  IF exist_kmer # <<>> THEN Some(exist_kmer, deep + 1)
             ELSE predecessors_from(ver, x, deep + 1)

predecessors(ver, x) == predecessors_from(ver, x, 0)

\* Viewed::contains
contains(v, x) == key_of[x] \in v

insert_overwriting(v, x) == {key_of[x]}

\* Viewed::insert
insert(v, x) == v \cup {key_of[x]}

-----------------------------------------------------------------------------
(* Unitig graph: petgraph::graphmap::UnGraphMap<Node, Edge>.                *)

\* Node::Tig(Tig { id, len, circular })
NodeTig(id, len, circular) ==
    [kind |-> "Tig", id |-> id, len |-> len, circular |-> circular]

\* Node::Kmer(Kmer { id })
NodeKmer(id) == [kind |-> "Kmer", id |-> id, len |-> 0, circular |-> FALSE]

EmptyGraph == [nodes |-> {}, edges |-> <<>>]

add_node(g, n) == [g EXCEPT !.nodes = @ \cup {n}]

\* add_edge inserts both nodes and sets, or replaces, the weight of the edge.
add_edge(g, a, b, w) ==
    [nodes |-> g.nodes \cup {a, b},
     edges |-> [e \in DOMAIN g.edges \cup {{a, b}} |->
                   IF e = {a, b} THEN w ELSE g.edges[e]]]

has_edge(g, a, b) == {a, b} \in DOMAIN g.edges

edge_weight(g, a, b) == g.edges[{a, b}]

neighbors(g, a) == {b \in g.nodes : has_edge(g, a, b)}

contains_node(g, n) == n \in g.nodes

-----------------------------------------------------------------------------
(* utils.rs helpers.                                                        *)

normalize_u64_2tuple(a) == IF a[1] > a[2] THEN <<a[2], a[1]>> ELSE a

normalize_usize_2tuple(a) == IF a[1] > a[2] THEN <<a[2], a[1]>> ELSE a

\* A sequence no longer than MaxTigLen (its head is kept); lap records that the
\* loop goes on beyond it.
Cut(s) == IF Len(s) > MaxTigLen THEN SubSeq(s, 1, MaxTigLen) ELSE s

add_kmer_in_tig_overlap(x, k, not_ovl_len, t, in_front) ==
    LET seq == kmer2seq(x, k)
    IN  IF in_front
        THEN SubSeq(seq, 1, k - not_ovl_len) \o t
        ELSE t \o SubSeq(seq, not_ovl_len + 1, k)

\* In front: the first not_ovl_len characters of the k-mer, pushed one by one
\* in reverse; at the back: its characters from position k - not_ovl_len on.
add_kmer_in_tig(x, k, not_ovl_len, t, in_front) ==
    LET seq == kmer2seq(x, k)
    IN  IF in_front THEN SubSeq(seq, 1, not_ovl_len) \o t
        ELSE t \o SubSeq(seq, (k - not_ovl_len) + 1, k)

-----------------------------------------------------------------------------
(* Initial states.                                                          *)

\* Bit positions of the solidity store and of the visited set.
Keys == 0 .. (get_kmer_space_size(K) - 1)

RECURSIVE SubsetsUpTo(_)
SubsetsUpTo(n) ==
    IF n = 0 THEN {{}}
    ELSE LET P == SubsetsUpTo(n - 1)
         IN  P \cup {T \cup {x} : T \in P, x \in Keys}

NoQuery == [op |-> "none", x |-> 0]

\* main has not been started.
NoRun == [unopenable |-> {}, unwritable |-> {}, opened |-> <<>>,
          stages |-> <<>>, result |-> "none"]

\* Values of the extraction state before write_unitig starts (lines 155-161).
ExtractionStart ==
    /\ kmer = 0
    /\ visited = {}
    /\ seed = 0
    /\ current = 0
    /\ begin = 0
    /\ tig = <<>>
    /\ walk = <<>>
    /\ nb_pred = 0
    /\ nb_succ = 0
    /\ tig_counter = 0
    /\ fasta = <<>>
    /\ tig_walks = <<>>
    /\ ends2tig = <<>>
    /\ ext_nodes = <<>>
    /\ tig_nodes = <<>>
    /\ unitig_graph = EmptyGraph
    /\ links = <<>>
    /\ lap = 0
    /\ kmer_gfa = <<>>

\* max_deep values of the runs explored: the range 1 .. k-1 of the oracle.
Deeps == 1 .. (K - 1)

Init ==
    /\ solidity \in SubsetsUpTo(MaxSolid)
    /\ max_deep \in Deeps
    /\ oracle \in {"graph/kmer.rs", "utils.rs"}
    /\ pc = "seed"
    /\ ExtractionStart
    /\ main_run = NoRun
    /\ query = NoQuery
    /\ answer = None

-----------------------------------------------------------------------------
(* write_unitig: the seed loop.                                             *)

\* Seeds of the loop `for kmer in 0..get_kmer_space_size(k)` not yet passed that
\* are solid and not visited.
Seeds ==
    {x \in kmer .. (get_kmer_space_size(K) - 1) :
        is_solid(x) /\ ~contains(visited, x)}

Min(S) == CHOOSE x \in S : \A y \in S : x <= y

\* The loop runs to the next seed, marks it visited and calls build_tig, which
\* initialises the tig with the seed's sequence.
Seed ==
    /\ pc = "seed"
    /\ Seeds # {}
    /\ LET s == Min(Seeds)
       IN  /\ kmer' = s
           /\ visited' = insert(visited, s)
           /\ seed' = s
           /\ current' = s
           /\ tig' = kmer2seq(s, K)
           /\ walk' = <<s>>
    /\ pc' = "left"
    /\ lap' = 0
    /\ UNCHANGED <<solidity, max_deep, oracle, begin, nb_pred, nb_succ,
                   tig_counter, fasta, tig_walks, ends2tig, ext_nodes,
                   tig_nodes, unitig_graph, links, query, answer,
                   kmer_gfa, main_run>>

\* The loop has run through the whole range: write_unitig returns.
SeedsDone ==
    /\ pc = "seed"
    /\ Seeds = {}
    /\ pc' = "augment"
    /\ kmer' = get_kmer_space_size(K)
    /\ UNCHANGED <<solidity, max_deep, oracle, visited, seed, current, begin,
                   tig, walk, nb_pred, nb_succ, tig_counter, fasta, tig_walks,
                   ends2tig, ext_nodes, tig_nodes, unitig_graph, links, query,
                   answer, lap,
                   kmer_gfa, main_run>>

-----------------------------------------------------------------------------
(* build_tig: the two extension loops.                                      *)

Size(r) == IF r.some THEN Len(r.kmers) ELSE 0

\* The left loop takes one more step from x: predecessors returns one k-mer
\* and successors, when it returns something, returns one k-mer.
left_continues(x) ==
    LET pred == predecessors(oracle, x)
        succ == successors(oracle, x)
    IN  /\ pred.some
        /\ Len(pred.kmers) = 1
        /\ succ.some => Len(succ.kmers) = 1

right_continues_succ_only(x) ==
    LET succ == successors(oracle, x)
    IN  succ.some /\ Len(succ.kmers) = 1

\* The right loop takes one more step from x.
right_continues(x) ==
    LET succ == successors(oracle, x)
        pred == predecessors(oracle, x)
    IN  /\ succ.some
        /\ Len(succ.kmers) = 1
        /\ pred.some => Len(pred.kmers) = 1

LeftStep ==
    /\ pc = "left"
    /\ left_continues(current)
    /\ LET pred == predecessors(oracle, current)
       IN  /\ tig' = Cut(add_kmer_in_tig(pred.kmers[1], K, pred.deep, tig, TRUE))
           /\ current' = pred.kmers[1]
           /\ visited' = insert(visited, pred.kmers[1])
           /\ walk' = Cut(<<pred.kmers[1]>> \o walk)
    /\ lap' = IF Len(walk) >= MaxTigLen THEN 1 - lap ELSE lap
    /\ UNCHANGED <<solidity, max_deep, oracle, pc, kmer, seed, begin, nb_pred,
                   nb_succ, tig_counter, fasta, tig_walks, ends2tig, ext_nodes,
                   tig_nodes, unitig_graph, links, query, answer,
                   kmer_gfa, main_run>>

\* The left loop stops: begin = current, and the walk restarts from the seed.
LeftExit ==
    /\ pc = "left"
    /\ ~left_continues(current)
    /\ begin' = current
    /\ nb_pred' = Size(predecessors(oracle, current))
    /\ current' = seed
    /\ pc' = "right"
    /\ UNCHANGED <<solidity, max_deep, oracle, kmer, visited, seed, tig, walk,
                   nb_succ, tig_counter, fasta, tig_walks, ends2tig, ext_nodes,
                   tig_nodes, unitig_graph, links, query, answer, lap,
                   kmer_gfa, main_run>>

RightStep ==
    /\ pc = "right"
    /\ right_continues(current)
    /\ LET succ == successors(oracle, current)
       IN  /\ tig' = Cut(add_kmer_in_tig(succ.kmers[1], K, succ.deep, tig, FALSE))
           /\ current' = succ.kmers[1]
           /\ visited' = insert(visited, succ.kmers[1])
           /\ walk' = Cut(walk \o <<succ.kmers[1]>>)
    /\ lap' = IF Len(walk) >= MaxTigLen THEN 1 - lap ELSE lap
    /\ UNCHANGED <<solidity, max_deep, oracle, pc, kmer, seed, begin, nb_pred,
                   nb_succ, tig_counter, fasta, tig_walks, ends2tig, ext_nodes,
                   tig_nodes, unitig_graph, links, query, answer,
                   kmer_gfa, main_run>>

-----------------------------------------------------------------------------
(* build_tig returns; write_unitig records the tig (lines 173-226).         *)

TrivialTig_both_sides(w, np, ns) == Len(w) = 1 /\ np < 2 /\ ns < 2

\* Trivial-tig filter of build_tig: the walk is the seed alone and one side of
\* it has fewer than two neighbours.
TrivialTig(w, np, ns) == Len(w) = 1 /\ (np < 2 \/ ns < 2)

\* Lines 196-202: the edge to the begin endpoint.
begin_edge(g, node_tig, node_begin) ==
    IF has_edge(g, node_tig, node_begin)
    THEN IF edge_weight(g, node_tig, node_begin) = "Begin"
         THEN add_edge(g, node_tig, node_begin, "Both")
         ELSE g
    ELSE add_edge(g, node_tig, node_begin, "Begin")

\* Lines 204-210: the edge to the end endpoint.
end_edge(g, node_tig, node_end) ==
    IF has_edge(g, node_tig, node_end)
    THEN IF edge_weight(g, node_tig, node_end) = "End"
         THEN add_edge(g, node_tig, node_end, "End")
         ELSE g
    ELSE add_edge(g, node_tig, node_end, "End")

push_entry_next_id(m, key, id) ==
    [e \in DOMAIN m \cup {key} |->
        IF e \in DOMAIN m
        THEN IF e = key THEN Append(m[e], id + 1) ELSE m[e]
        ELSE <<id + 1>>]

\* ends2tig.entry(key).or_insert_with(Vec::new).push(id)
push_entry(m, key, id) ==
    [e \in DOMAIN m \cup {key} |->
        IF e \in DOMAIN m
        THEN IF e = key THEN Append(m[e], id) ELSE m[e]
        ELSE <<id>>]

\* The circular flag of a tig, as computed for its node and its FASTA header.
circular_flag(b, e) == b = e

end_of_walk_raw(x) == x

\* The endpoint build_tig reports for the k-mer at one end of the walk.
endpoint(x) == cannonical(x, K)

\* The right loop stops with a tig that is kept: build_tig returns
\* Some((tig, begin, end)) and the body of the seed loop records it.
RightEmit ==
    /\ pc = "right"
    /\ ~right_continues(current)
    /\ LET ns == Size(successors(oracle, current))
           b == endpoint(begin)
           e == endpoint(current)
           node_tig == NodeTig(tig_counter, Len(tig), circular_flag(b, e))
           node_begin == NodeKmer(b)
           node_end == NodeKmer(e)
           g1 == add_node(add_node(add_node(unitig_graph, node_tig),
                                   node_begin), node_end)
           g2 == begin_edge(g1, node_tig, node_begin)
           g3 == end_edge(g2, node_tig, node_end)
       IN  /\ ~TrivialTig(walk, nb_pred, ns)
           /\ nb_succ' = ns
           /\ ends2tig' = push_entry(ends2tig, normalize_u64_2tuple(<<b, e>>),
                                     tig_counter)
           /\ tig_nodes' = Append(tig_nodes, node_tig)
           /\ ext_nodes' = ext_nodes \o <<node_begin, node_end>>
           /\ unitig_graph' = g3
           /\ fasta' = Append(fasta, [id |-> tig_counter, len |-> Len(tig),
                                      circular |-> circular_flag(b, e),
                                      begin |-> b, end |-> e, seq |-> tig])
           /\ tig_walks' = Append(tig_walks, walk)
           /\ tig_counter' = tig_counter + 1
    /\ kmer' = kmer + 1
    /\ pc' = "seed"
    /\ UNCHANGED <<solidity, max_deep, oracle, visited, seed, current, begin,
                   tig, walk, nb_pred, links, query, answer, lap,
                   kmer_gfa, main_run>>

\* The right loop stops with a trivial tig: build_tig returns None and the seed
\* loop continues.
RightDiscard ==
    /\ pc = "right"
    /\ ~right_continues(current)
    /\ LET ns == Size(successors(oracle, current))
       IN  /\ TrivialTig(walk, nb_pred, ns)
           /\ nb_succ' = ns
    /\ kmer' = kmer + 1
    /\ pc' = "seed"
    /\ UNCHANGED <<solidity, max_deep, oracle, visited, seed, current, begin,
                   tig, walk, nb_pred, tig_counter, fasta, tig_walks, ends2tig,
                   ext_nodes, tig_nodes, unitig_graph, links, query, answer, lap,
                   kmer_gfa, main_run>>

-----------------------------------------------------------------------------
(* add_missing_edge.                                                        *)

RECURSIVE add_kmer_edges(_, _, _, _)
\* One `for succ in succs` (or `for pred in preds`) loop, from index i.
add_kmer_edges(g, n, ks, i) ==
    IF i > Len(ks) THEN g
    ELSE LET node_other == NodeKmer(cannonical(ks[i], K))
         IN  add_kmer_edges(IF contains_node(g, node_other)
                            THEN add_edge(g, n, node_other, "Kmer")
                            ELSE g,
                            n, ks, i + 1)

RECURSIVE add_missing_edge_from(_, _, _)
\* The `for node in ext_nodes` loop, from index i.
add_missing_edge_from(nodes, g, i) ==
    IF i > Len(nodes) THEN g
    ELSE LET n == nodes[i]
             succs == successors("graph/kmer.rs", n.id)
             preds == predecessors("graph/kmer.rs", n.id)
             g1 == IF n.kind = "Kmer" /\ succs.some
                   THEN add_kmer_edges(g, n, succs.kmers, 1) ELSE g
             g2 == IF n.kind = "Kmer" /\ preds.some
                   THEN add_kmer_edges(g1, n, preds.kmers, 1) ELSE g1
         IN  add_missing_edge_from(nodes, g2, i + 1)

add_missing_edge_skip_first(nodes, g) == add_missing_edge_from(nodes, g, 2)

\* add_missing_edge (lines 232-271).
add_missing_edge(nodes, g) == add_missing_edge_from(nodes, g, 1)

AddMissingEdge ==
    /\ pc = "augment"
    /\ unitig_graph' = add_missing_edge(ext_nodes, unitig_graph)
    /\ pc' = "links"
    /\ UNCHANGED <<solidity, max_deep, oracle, kmer, visited, seed, current,
                   begin, tig, walk, nb_pred, nb_succ, tig_counter, fasta,
                   tig_walks, ends2tig, ext_nodes, tig_nodes, links, query,
                   answer, lap,
                   kmer_gfa, main_run>>

-----------------------------------------------------------------------------
(* Link enumeration.                                                        *)

signs_swapped(e1, e2) ==
    CASE e1 = "Begin" /\ e2 = "Begin" -> <<"+", "-">>
      [] e1 = "Begin" /\ e2 = "End"   -> <<"-", "-">>
      [] e1 = "End"   /\ e2 = "Begin" -> <<"+", "+">>
      [] e1 = "End"   /\ e2 = "End"   -> <<"+", "-">>
      [] OTHER -> <<>>

\* The sign table of build_link (lines 61-71); <<>> stands for None.
signs(e1, e2) ==
    CASE e1 = "Begin" /\ e2 = "Begin" -> <<"-", "+">>
      [] e1 = "Begin" /\ e2 = "End"   -> <<"-", "-">>
      [] e1 = "End"   /\ e2 = "Begin" -> <<"+", "+">>
      [] e1 = "End"   /\ e2 = "End"   -> <<"+", "-">>
      [] OTHER -> <<>>

build_link_one_way(s1, t1, s2, t2, g) ==
    IF /\ s1.kind = "Tig"
       /\ t2.kind = "Tig"
       /\ s1.id <= t2.id
       /\ has_edge(g, s1, t1)
       /\ has_edge(g, s2, t2)
       /\ signs(edge_weight(g, s1, t1), edge_weight(g, s2, t2)) # <<>>
    THEN LET sg == signs(edge_weight(g, s1, t1), edge_weight(g, s2, t2))
         IN  {<<s1.id, sg[1], t2.id, sg[2]>>}
    ELSE {}

\* build_link: the set holding the link, empty for None.
build_link(s1, t1, s2, t2, g) ==
    IF /\ s1.kind = "Tig"
       /\ t2.kind = "Tig"
       /\ has_edge(g, s1, t1)
       /\ has_edge(g, s2, t2)
       /\ signs(edge_weight(g, s1, t1), edge_weight(g, s2, t2)) # <<>>
    THEN LET sg == signs(edge_weight(g, s1, t1), edge_weight(g, s2, t2))
         IN  {<<s1.id, sg[1], t2.id, sg[2]>>}
    ELSE {}

TigNodesOf(g) == {n \in g.nodes : n.kind = "Tig"}

KmerNeighbors(g, n) == {m \in neighbors(g, n) : m.kind = "Kmer"}

\* The three nested loops of tig_kmer_tig; the result is a HashSet.
tig_kmer_tig(g) ==
    UNION {UNION {UNION {build_link(node, nnode, nnode, nnnode, g) :
                            nnnode \in neighbors(g, nnode) \ {node}} :
                     nnode \in KmerNeighbors(g, node)} :
              node \in TigNodesOf(g)}

\* The four nested loops of tig_kmer_kmer_tig; the result is a HashSet.
tig_kmer_kmer_tig(g) ==
    UNION {UNION {UNION {UNION {build_link(node, nnode, nnnode, nnnnode, g) :
                                   nnnnode \in neighbors(g, nnnode) \ {node}} :
                            nnnode \in KmerNeighbors(g, nnode)} :
                     nnode \in KmerNeighbors(g, node)} :
              node \in TigNodesOf(g)}

-----------------------------------------------------------------------------
(* Endpoint-map links: create_link (utils.rs).                              *)

\* HashMap::get: the list stored under key, empty when the key is absent.
get(m, key) == IF key \in DOMAIN m THEN m[key] ELSE <<>>

RECURSIVE create_link_first_unfiltered(_, _, _, _, _)
create_link_first_unfiltered(t, others, other_before, paralelle_tig, i) ==
    IF i > Len(others) THEN <<>>
    ELSE LET other_tig == others[i]
             rest == create_link_first_unfiltered(t, others, other_before,
                                                  paralelle_tig, i + 1)
         IN  IF other_tig = t THEN rest
             ELSE IF other_before
                  THEN <<(<<other_tig, "+", t, "+">>)>> \o rest
                  ELSE <<(<<t, "-", other_tig, "+">>)>> \o rest

RECURSIVE create_link_first(_, _, _, _, _)
\* The loop over first_ends.get(end), from index i.
create_link_first(t, others, other_before, paralelle_tig, i) ==
    IF i > Len(others) THEN <<>>
    ELSE LET other_tig == others[i]
             rest == create_link_first(t, others, other_before,
                                       paralelle_tig, i + 1)
         IN  IF normalize_usize_2tuple(<<other_tig, t>>) \in paralelle_tig
             THEN rest
             ELSE IF other_tig = t THEN rest
             ELSE IF other_before
                  THEN <<(<<other_tig, "+", t, "+">>)>> \o rest
                  ELSE <<(<<t, "-", other_tig, "+">>)>> \o rest

RECURSIVE create_link_second_with_self(_, _, _, _, _)
create_link_second_with_self(t, others, other_before, paralelle_tig, i) ==
    IF i > Len(others) THEN <<>>
    ELSE LET other_tig == others[i]
             rest == create_link_second_with_self(t, others, other_before,
                                                  paralelle_tig, i + 1)
         IN  IF normalize_usize_2tuple(<<other_tig, t>>) \in paralelle_tig
             THEN rest
             ELSE IF other_before
                  THEN <<(<<other_tig, "+", t, "-">>)>> \o rest
                  ELSE <<(<<t, "+", other_tig, "+">>)>> \o rest

RECURSIVE create_link_second(_, _, _, _, _)
\* The loop over second_ends.get(end), from index i.
create_link_second(t, others, other_before, paralelle_tig, i) ==
    IF i > Len(others) THEN <<>>
    ELSE LET other_tig == others[i]
             rest == create_link_second(t, others, other_before,
                                        paralelle_tig, i + 1)
         IN  IF normalize_usize_2tuple(<<other_tig, t>>) \in paralelle_tig
             THEN rest
             ELSE IF other_tig = t THEN rest
             ELSE IF other_before
                  THEN <<(<<other_tig, "+", t, "-">>)>> \o rest
                  ELSE <<(<<t, "+", other_tig, "+">>)>> \o rest

create_link(t, end, first_ends, second_ends, other_before, paralelle_tig) ==
    create_link_first(t, get(first_ends, end), other_before, paralelle_tig, 1)
    \o create_link_second(t, get(second_ends, end), other_before,
                          paralelle_tig, 1)

-----------------------------------------------------------------------------
(* The driver of link enumeration (main): parallel pairs, endpoint maps and *)
(* the filter applied to the links before they are written.                 *)

Range(f) == {f[i] : i \in DOMAIN f}

\* Every unordered pair of tig ids stored under one key of ends2tig.
parallel_pairs(e2t) ==
    UNION {{normalize_usize_2tuple(<<e2t[key][i], e2t[key][j]>>) :
               <<i, j>> \in {q \in (DOMAIN e2t[key]) \X (DOMAIN e2t[key]) :
                               q[1] < q[2]}} :
           key \in DOMAIN e2t}

\* ext2tig_begin: endpoint k-mer -> ids of the tigs that begin there.
ext2tig_begin(recs) ==
    [e \in {recs[i].begin : i \in DOMAIN recs} |->
        SelectSeq([i \in DOMAIN recs |-> recs[i].id],
                  LAMBDA id : recs[id + 1].begin = e)]

\* ext2tig_end: endpoint k-mer -> ids of the tigs that end there.
ext2tig_end(recs) ==
    [e \in {recs[i].end : i \in DOMAIN recs} |->
        SelectSeq([i \in DOMAIN recs |-> recs[i].id],
                  LAMBDA id : recs[id + 1].end = e)]

\* Links the endpoint maps yield: create_link for every tig, each of its two
\* ends, both orders of the two maps and both values of other_before.
endpoint_map_links(recs, paralelle_tig) ==
    LET maps == {<<ext2tig_begin(recs), ext2tig_end(recs)>>,
                 <<ext2tig_end(recs), ext2tig_begin(recs)>>}
        calls(i) == {recs[i].begin, recs[i].end} \X maps \X BOOLEAN
    IN  UNION {UNION {Range(create_link(recs[i].id, c[1], c[2][1], c[2][2],
                                        c[3], paralelle_tig)) :
                         c \in calls(i)} :
                  i \in DOMAIN recs}

\* Links written to the unitig GFA: the traversal links that are neither
\* self-links nor between parallel tigs, and one self-link per circular tig.
written_links(found, nodes, paralelle_tig) ==
    {l \in found : /\ l[1] # l[3]
                   /\ normalize_usize_2tuple(<<l[1], l[3]>>) \notin paralelle_tig}
    \cup {<<nodes[i].id, "-", nodes[i].id, "+">> :
             i \in {j \in DOMAIN nodes : nodes[j].circular}}

Links ==
    /\ pc = "links"
    /\ LET tkt == tig_kmer_tig(unitig_graph)
           tkkt == tig_kmer_kmer_tig(unitig_graph)
           par == parallel_pairs(ends2tig)
       IN  links' = [tig_kmer_tig |-> tkt,
                     tig_kmer_kmer_tig |-> tkkt,
                     paralelle_tig |-> par,
                     create_link |-> endpoint_map_links(fasta, par),
                     written |-> written_links(tkt \cup tkkt, tig_nodes, par)]
    /\ pc' = "done"
    /\ UNCHANGED <<solidity, max_deep, oracle, kmer, visited, seed, current,
                   begin, tig, walk, nb_pred, nb_succ, tig_counter, fasta,
                   tig_walks, ends2tig, ext_nodes, tig_nodes, unitig_graph,
                   query, answer, lap,
                   kmer_gfa, main_run>>

-----------------------------------------------------------------------------
Next ==
    \/ Seed
    \/ SeedsDone
    \/ LeftStep
    \/ LeftExit
    \/ RightStep
    \/ RightEmit
    \/ RightDiscard
    \/ AddMissingEdge
    \/ Links

Spec == Init /\ [][Next]_vars

-----------------------------------------------------------------------------
(* Probing the oracle and the visited set: one operation applied to one     *)
(* k-mer over a solidity store.                                             *)

InitOracle ==
    /\ solidity \in SubsetsUpTo(MaxSolidOracle)
    /\ max_deep \in Deeps
    /\ oracle = "graph/kmer.rs"
    /\ pc = "oracle"
    /\ ExtractionStart
    /\ main_run = NoRun
    /\ query = NoQuery
    /\ answer = None

OracleUnchanged ==
    UNCHANGED <<solidity, max_deep, oracle, kmer, seed, current, begin, tig,
                walk, nb_pred, nb_succ, tig_counter, fasta, tig_walks,
                ends2tig, ext_nodes, tig_nodes, unitig_graph, links, lap,
                kmer_gfa, main_run>>

\* successors(x) of each of the three implementations.
ProbeSuccessors ==
    /\ pc = "oracle"
    /\ \E x \in Kmers :
          /\ query' = [op |-> "successors", x |-> x]
          /\ answer' = [v \in Versions |-> successors(v, x)]
    /\ pc' = "answered"
    /\ UNCHANGED visited
    /\ OracleUnchanged

\* predecessors(x) of each of the three implementations.
ProbePredecessors ==
    /\ pc = "oracle"
    /\ \E x \in Kmers :
          /\ query' = [op |-> "predecessors", x |-> x]
          /\ answer' = [v \in Versions |-> predecessors(v, x)]
    /\ pc' = "answered"
    /\ UNCHANGED visited
    /\ OracleUnchanged

ProbeIsSolid ==
    /\ pc = "oracle"
    /\ \E x \in Kmers :
          /\ query' = [op |-> "is_solid", x |-> x]
          /\ answer' = is_solid(x)
    /\ pc' = "answered"
    /\ UNCHANGED visited
    /\ OracleUnchanged

\* Viewed::insert(x) on a fresh visited set.
ProbeInsert ==
    /\ pc = "oracle"
    /\ \E x \in Kmers :
          /\ query' = [op |-> "insert", x |-> x]
          /\ visited' = insert(visited, x)
    /\ pc' = "answered"
    /\ UNCHANGED answer
    /\ OracleUnchanged

NextOracle ==
    \/ ProbeSuccessors
    \/ ProbePredecessors
    \/ ProbeIsSolid
    \/ ProbeInsert

SpecOracle == InitOracle /\ [][NextOracle]_vars

-----------------------------------------------------------------------------
(* Properties of the oracle and of the index key.                           *)

\* The k-mers an Option<(Vec<u64>, u8)> holds.
Returned(r) == {r.kmers[i] : i \in DOMAIN r.kmers}

IsNeighbourQuery == query.op \in {"successors", "predecessors"}

\* C3: every k-mer n returned by successors(x) or predecessors(x), in each of
\* the three implementations of the oracle, differs from x and from
\* revcomp(x, k).
C3_NoSelfNoRevcomp ==
    IsNeighbourQuery =>
        \A v \in Versions : \A n \in Returned(answer[v]) :
            n # query.x /\ n # revcomp_of[query.x]

\* A neighbour of x that is solid and is neither x nor its reverse complement.
Admissible(x, n) == is_solid(n) /\ n # x /\ n # revcomp_of[x]

\* Admissible k-mers whose first k-d nucleotides are the last k-d of x.
SuccAtDepth(x, d) ==
    {n \in Kmers : n \div (4^d) = x % (4^(K - d)) /\ Admissible(x, n)}

\* Admissible k-mers whose last k-d nucleotides are the first k-d of x.
PredAtDepth(x, d) ==
    {n \in Kmers : n % (4^(K - d)) = x \div (4^d) /\ Admissible(x, n)}

\* r is absent when no depth of 1..max_deep has a k-mer in at(d); otherwise it
\* holds the smallest such depth and exactly the k-mers of at(d), once each.
MinimalDepthResult(r, at(_)) ==
    LET ds == {d \in 1 .. max_deep : at(d) # {}}
    IN  /\ r.some <=> ds # {}
        /\ r.some => /\ r.deep = Min(ds)
                     /\ Returned(r) = at(r.deep)
                     /\ Len(r.kmers) = Cardinality(at(r.deep))

\* C4: successors(x) and predecessors(x) of graph::kmer::Graph return the
\* smallest depth of 1..max_deep that has an admissible candidate, with all the
\* admissible candidates of that depth, and are absent exactly when no depth
\* has one.
C4_MinimalDepth ==
    /\ query.op = "successors" =>
          MinimalDepthResult(answer["graph/kmer.rs"],
                             LAMBDA d : SuccAtDepth(query.x, d))
    /\ query.op = "predecessors" =>
          MinimalDepthResult(answer["graph/kmer.rs"],
                             LAMBDA d : PredAtDepth(query.x, d))

\* A gap was skipped and the depth reached has a tie.
C4_Witness ==
    /\ IsNeighbourQuery
    /\ answer["graph/kmer.rs"].some
    /\ answer["graph/kmer.rs"].deep = 2
    /\ Len(answer["graph/kmer.rs"].kmers) = 2

\* C5: is_solid agrees on a k-mer and its reverse complement, and after
\* insert(x) the visited set contains revcomp(x, k).
C5_StrandSymmetry ==
    /\ query.op = "is_solid" => answer = is_solid(revcomp_of[query.x])
    /\ query.op = "insert" => contains(visited, revcomp_of[query.x])

\* A solid k-mer was probed through the strand that is not stored.
C5_Witness ==
    /\ query.op = "is_solid"
    /\ answer = TRUE
    /\ cannonical(query.x, K) # query.x

\* The canonical form and the index key as the specification words them.
canonical_min(x) == IF x <= revcomp_of[x] THEN x ELSE revcomp_of[x]

key_by_mask(x) == canonical_min(x) % (2^(2*K - 1))

KeyRange == 0 .. ((4^K \div 2) - 1)

cannonical_of == [x \in Kmers |-> cannonical(x, K)]

-----------------------------------------------------------------------------
(* Properties of unitig extraction.                                         *)

InitLive ==
    /\ solidity \in SubsetsUpTo(MaxSolidLive)
    /\ max_deep \in Deeps
    /\ oracle \in {"graph/kmer.rs", "utils.rs"}
    /\ pc = "seed"
    /\ ExtractionStart
    /\ main_run = NoRun
    /\ query = NoQuery
    /\ answer = None

\* The run takes its next step whenever it has one: the program is a single
\* sequential thread.
LiveSpec == InitLive /\ [][Next]_vars /\ WF_vars(Next)

\* Positions <<t, i>> of the k-mers consumed by the emitted unitigs.
Consumed ==
    UNION {{<<t, i>> : i \in DOMAIN tig_walks[t]} : t \in DOMAIN tig_walks}

KeyAt(p) == key_of[tig_walks[p[1]][p[2]]]

\* C1: after extraction every solid canonical k-mer is a k-mer of exactly one
\* emitted unitig: the canonical k-mers consumed by the emitted unitigs have no
\* duplicate and are exactly the solid canonical k-mers.
C1_Coverage ==
    pc = "done" =>
        /\ \A p, q \in Consumed : p # q => KeyAt(p) # KeyAt(q)
        /\ {KeyAt(p) : p \in Consumed} = solidity

\* C2: unitig extraction terminates for every solidity store.
C2_Terminates == <>(pc = "done")

\* C7: the begin and end reported for every emitted tig are canonical, are the
\* canonical forms of the first and last k-mer of the walk (which are the first
\* and last k-mer of the sequence), and the circular flag of the FASTA header
\* and of the Tig node is true exactly when begin = end.
C7_Endpoints ==
    \A i \in DOMAIN fasta :
        LET r == fasta[i]
            w == tig_walks[i]
        IN  /\ r.begin = cannonical(r.begin, K)
            /\ r.end = cannonical(r.end, K)
            /\ r.begin = cannonical(w[1], K)
            /\ r.end = cannonical(w[Len(w)], K)
            /\ w[1] = seq2bit(SubSeq(r.seq, 1, K))
            /\ w[Len(w)] = seq2bit(SubSeq(r.seq, Len(r.seq) - K + 1, Len(r.seq)))
            /\ r.circular <=> r.begin = r.end
            /\ tig_nodes[i].id = r.id
            /\ tig_nodes[i].circular <=> r.begin = r.end

\* A circular tig and a linear tig were emitted, and the walk of one of them
\* starts on the strand that is not the canonical one.
C7_Witness ==
    \E i, j \in DOMAIN fasta :
        /\ fasta[i].circular
        /\ Len(tig_walks[i]) > 1
        /\ ~fasta[j].circular
        /\ cannonical(tig_walks[j][1], K) # tig_walks[j][1]

-----------------------------------------------------------------------------
(* Properties of link enumeration.                                          *)

\* The endpoint-role table of the specification.
SignTable ==
    [t \in {"Begin", "End"} \X {"Begin", "End"} |->
        CASE t = <<"Begin", "Begin">> -> <<"-", "+">>
          [] t = <<"Begin", "End">>   -> <<"-", "-">>
          [] t = <<"End", "Begin">>   -> <<"+", "+">>
          [] t = <<"End", "End">>     -> <<"+", "-">>]

\* l is the link of the two terminal edges t1 - e1 and e2 - t2.
LinkOfEdges(l, t1, e1, e2, t2) ==
    /\ t1.id = l[1]
    /\ t2.id = l[3]
    /\ has_edge(unitig_graph, t1, e1)
    /\ has_edge(unitig_graph, e2, t2)
    /\ LET tags == <<edge_weight(unitig_graph, t1, e1),
                     edge_weight(unitig_graph, e2, t2)>>
       IN  tags \in DOMAIN SignTable /\ <<l[2], l[4]>> = SignTable[tags]

KmerNodesOf(g) == {n \in g.nodes : n.kind = "Kmer"}

\* C8: every link of tig_kmer_tig comes from a path Tig - Endpoint - Tig and
\* every link of tig_kmer_kmer_tig from a path Tig - Endpoint - Endpoint - Tig
\* of the unitig graph; the two terminal edges are tagged Begin or End and the
\* signs are those of the table.
C8_LinkSoundness ==
    pc = "done" =>
        /\ \A l \in links.tig_kmer_tig :
              \E t1, t2 \in TigNodesOf(unitig_graph) :
                 \E e \in KmerNodesOf(unitig_graph) :
                    LinkOfEdges(l, t1, e, e, t2)
        /\ \A l \in links.tig_kmer_kmer_tig :
              \E t1, t2 \in TigNodesOf(unitig_graph) :
                 \E e1, e2 \in KmerNodesOf(unitig_graph) :
                    /\ has_edge(unitig_graph, e1, e2)
                    /\ edge_weight(unitig_graph, e1, e2) = "Kmer"
                    /\ LinkOfEdges(l, t1, e1, e2, t2)

\* Both traversals found links, among them one of each row of the table.
C8_Witness ==
    /\ pc = "done"
    /\ links.tig_kmer_tig # {}
    /\ links.tig_kmer_kmer_tig # {}
    /\ \A sg \in {<<"-", "+">>, <<"-", "-">>, <<"+", "+">>, <<"+", "-">>} :
          \E l \in links.tig_kmer_tig \cup links.tig_kmer_kmer_tig :
             <<l[2], l[4]>> = sg

\* Links that reach the output: those written after the traversal and those
\* the endpoint maps yield.
EmittedLinks == links.written \cup links.create_link

SameEnds(r1, r2) ==
    normalize_u64_2tuple(<<r1.begin, r1.end>>)
        = normalize_u64_2tuple(<<r2.begin, r2.end>>)

SelfLinks(id) == {l \in EmittedLinks : l[1] = id /\ l[3] = id}

-----------------------------------------------------------------------------
(* The k-mer graph writers: write_kmer_graph of graph/kmer.rs and the k-mer  *)
(* graph part of main.                                                       *)

HLine == [line |-> "H", version |-> "1.0"]

\* "S\t{}\t{}\tRC:Z:{} RB:i:{}" of write_kmer_graph
SLineRc(cano) ==
    [line |-> "S", id |-> cano, seq |-> kmer2seq(cano, K),
     rc |-> kmer2seq(revcomp_of[cano], K), rb |-> revcomp_of[cano]]

\* "S\t{}\t{}" of main
SLine(x) == [line |-> "S", id |-> x, seq |-> kmer2seq(x, K)]

LLine(from, from_sign, to, to_sign, ovl) ==
    [line |-> "L", from |-> from, from_sign |-> from_sign, to |-> to,
     to_sign |-> to_sign, ovl |-> ovl]

\* pred_sign / succ_sign
neighbour_sign(n) == IF parity_even(n) THEN <<"+", "-">> ELSE <<"-", "+">>

\* `for predecessor in preds`
pred_lines(ver, cano) ==
    LET r == predecessors(ver, cano)
    IN  [i \in 1 .. Len(r.kmers) |->
            LLine(cannonical_of[r.kmers[i]], neighbour_sign(r.kmers[i])[1],
                  cano, "+", K - r.deep)]

\* `for successor in succs`
succ_lines(ver, cano) ==
    LET r == successors(ver, cano)
    IN  [i \in 1 .. Len(r.kmers) |->
            LLine(cano, "+", cannonical_of[r.kmers[i]],
                  neighbour_sign(r.kmers[i])[1], K - r.deep)]

RECURSIVE write_kmer_graph_from(_)
\* The loop `for kmer in 0..get_kmer_space_size(k)` of write_kmer_graph, from
\* kmer on.
write_kmer_graph_from(x) ==
    IF x >= get_kmer_space_size(K) THEN <<>>
    ELSE IF ~is_solid(x) THEN write_kmer_graph_from(x + 1)
    ELSE LET cano == cannonical_of[x]
         IN  <<SLineRc(cano)>> \o pred_lines("graph/kmer.rs", cano)
                 \o succ_lines("graph/kmer.rs", cano)
                 \o write_kmer_graph_from(x + 1)

write_kmer_graph == <<HLine>> \o write_kmer_graph_from(0)

RECURSIVE main_links_from(_)
\* The loop `for kmer in 0..(get_kmer_space_size(k) << 1)` of main, from kmer
\* on: the L lines it writes.
main_links_from(x) ==
    IF x >= 2 * get_kmer_space_size(K) THEN <<>>
    ELSE IF ~is_solid(x) THEN main_links_from(x + 1)
    ELSE LET cano == cannonical_of[x]
         IN  pred_lines("utils.rs", cano) \o succ_lines("utils.rs", cano)
                 \o main_links_from(x + 1)

\* kmer_set of main: both ends of every L line.
main_kmer_set ==
    LET ls == main_links_from(0)
    IN  UNION {{ls[i].from, ls[i].to} : i \in DOMAIN ls}

\* The orders in which a std HashSet may be iterated.
IterationOrders(S) ==
    {f \in [1 .. Cardinality(S) -> S] :
        \A i, j \in 1 .. Cardinality(S) : i # j => f[i] # f[j]}

main_kmer_graph(order) ==
    <<HLine>> \o main_links_from(0)
        \o [i \in DOMAIN order |-> SLine(order[i])]

KmerGfaUnchanged ==
    UNCHANGED <<solidity, max_deep, oracle, pc, kmer, visited, seed, current,
                begin, tig, walk, nb_pred, nb_succ, tig_counter, fasta,
                tig_walks, ends2tig, ext_nodes, tig_nodes, unitig_graph, links,
                lap, main_run, query, answer>>

InitKmerGfa ==
    /\ solidity \in SubsetsUpTo(MaxSolidGfa)
    /\ max_deep \in Deeps
    /\ oracle = "graph/kmer.rs"
    /\ pc = "kmer_gfa"
    /\ ExtractionStart
    /\ main_run = NoRun
    /\ query = NoQuery
    /\ answer = None

\* One run of write_kmer_graph over the store (a first run, or a second one
\* over the same store).
WriteKmerGraph ==
    /\ pc = "kmer_gfa"
    /\ Len(kmer_gfa) < 2
    /\ kmer_gfa' = Append(kmer_gfa, [writer |-> "write_kmer_graph",
                                     lines |-> write_kmer_graph])
    /\ KmerGfaUnchanged

\* One run of the k-mer graph part of main over the store; the S lines follow
\* the iteration order of kmer_set.
MainKmerGraph ==
    /\ pc = "kmer_gfa"
    /\ Len(kmer_gfa) < 2
    /\ \E order \in IterationOrders(main_kmer_set) :
          kmer_gfa' = Append(kmer_gfa, [writer |-> "main",
                                        lines |-> main_kmer_graph(order)])
    /\ KmerGfaUnchanged

NextKmerGfa == WriteKmerGraph \/ MainKmerGraph

SpecKmerGfa == InitKmerGfa /\ [][NextKmerGfa]_vars

\* C11: two runs of the same writer over the same solidity store, k and
\* max_deep produce the same sequence of output records.
C11_Determinism ==
    \A i, j \in DOMAIN kmer_gfa :
        kmer_gfa[i].writer = kmer_gfa[j].writer
            => kmer_gfa[i].lines = kmer_gfa[j].lines

\* The S lines of an output whose segment is the canonical k-mer of key.
SLinesOf(out, key) ==
    {i \in DOMAIN out.lines :
        out.lines[i].line = "S" /\ key_of[out.lines[i].id] = key}

\* C14: the k-mer GFA of write_kmer_graph has exactly one S line per solid
\* canonical k-mer, and no S line for any other k-mer.
C14_OneSLinePerSolid ==
    \A r \in DOMAIN kmer_gfa :
        kmer_gfa[r].writer = "write_kmer_graph" =>
            \A key \in Keys :
                Cardinality(SLinesOf(kmer_gfa[r], key))
                    = IF key \in solidity THEN 1 ELSE 0

-----------------------------------------------------------------------------
(* Properties of the seed loop.                                             *)

\* build_tig has just returned to the seed loop.
BuildTigReturns == pc = "right" /\ pc' = "seed"

\* Nothing of a tig is recorded by the step.
NothingRecorded ==
    UNCHANGED <<tig_counter, fasta, tig_walks, tig_nodes, ext_nodes, ends2tig,
                unitig_graph>>

\* The step records one tig: one id, one FASTA record, one Tig node.
OneTigRecorded ==
    /\ tig_counter' = tig_counter + 1
    /\ Len(fasta') = Len(fasta) + 1
    /\ fasta'[Len(fasta')].seq = tig
    /\ Len(tig_nodes') = Len(tig_nodes) + 1
    /\ tig_nodes'[Len(tig_nodes')] \in unitig_graph'.nodes
    /\ tig_nodes'[Len(tig_nodes')] \notin unitig_graph.nodes

-----------------------------------------------------------------------------
(* The codec under arbitrary calls.                                         *)

\* k-mer sizes of the probes and the k-mers of size k (bits above 2k-1 zero).
CodecSizes == 2 .. MaxCodecK

KmersOf(k) == 0 .. (4^k - 1)

InitCodec ==
    /\ solidity = {}
    /\ max_deep = 1
    /\ oracle = "graph/kmer.rs"
    /\ pc = "codec"
    /\ ExtractionStart
    /\ main_run = NoRun
    /\ query = NoQuery
    /\ answer = None

\* kmer2seq(x, k), and seq2bit of its result.
ProbeKmer2Seq ==
    /\ pc = "codec"
    /\ \E k \in CodecSizes : \E x \in KmersOf(k) :
          /\ query' = [op |-> "kmer2seq", x |-> x, k |-> k]
          /\ answer' = [value |-> kmer2seq(x, k),
                        back |-> seq2bit(kmer2seq(x, k))]
    /\ pc' = "answered"
    /\ UNCHANGED visited
    /\ OracleUnchanged

\* revcomp(x, k), and revcomp of its result.
ProbeRevcomp ==
    /\ pc = "codec"
    /\ \E k \in CodecSizes : \E x \in KmersOf(k) :
          /\ query' = [op |-> "revcomp", x |-> x, k |-> k]
          /\ answer' = [value |-> revcomp(x, k),
                        back |-> revcomp(revcomp(x, k), k)]
    /\ pc' = "answered"
    /\ UNCHANGED visited
    /\ OracleUnchanged

NextCodec == ProbeKmer2Seq \/ ProbeRevcomp

SpecCodec == InitCodec /\ [][NextCodec]_vars

\* The letter of a 2-bit value in the encoding A=00, C=01, T=10, G=11.
Letter(d) == <<"A", "C", "T", "G">>[d + 1]

\* C13: for every k and every x of 2k bits, kmer2seq(x, k) spells the 2-bit
\* digits of x, first nucleotide in the high bits, with A=00, C=01, T=10, G=11;
\* seq2bit(kmer2seq(x, k)) = x; and revcomp(revcomp(x, k), k) = x.
C13_RoundTrip ==
    /\ query.op = "kmer2seq" =>
          /\ Len(answer.value) = query.k
          /\ \A i \in 1 .. query.k :
                answer.value[i]
                    = Letter((query.x \div (4^(query.k - i))) % 4)
          /\ answer.back = query.x
    /\ query.op = "revcomp" =>
          /\ answer.value \in KmersOf(query.k)
          /\ answer.back = query.x

\* A k-mer that uses the four letters was decoded and encoded back.
C13_Witness ==
    /\ query.op = "kmer2seq"
    /\ answer.value = <<"G", "A", "T", "C">>
    /\ answer.back = query.x

-----------------------------------------------------------------------------
(* Properties of the stores.                                                *)

\* C15: in every step the visited set keeps the bits it has, only the seed
\* loop and build_tig set a bit (the bit of the k-mer they move to), and the
\* solidity store is unchanged by extraction, augmentation and link
\* enumeration.
C15_StoresMonotone ==
    [][/\ visited \subseteq visited'
       /\ visited' # visited =>
             /\ pc \in {"seed", "left", "right"}
             /\ visited' = visited \cup {key_of[current']}
       /\ solidity' = solidity]_vars

\* Extraction set several bits, and augmentation and link enumeration ran
\* after it.
C15_Witness ==
    /\ pc = "done"
    /\ Cardinality(visited) >= 3
    /\ links.written # {}

-----------------------------------------------------------------------------
(* Properties of tig ids.                                                   *)

\* The positions <<key, j>> of ends2tig that hold id.
EntriesOf(id) ==
    {e \in UNION {{<<key, j>> : j \in DOMAIN ends2tig[key]} :
                     key \in DOMAIN ends2tig} :
        ends2tig[e[1]][e[2]] = id}

\* After n tigs the ids are 0..n-1: the i-th FASTA record and the i-th Tig node
\* have id i-1, and ends2tig holds that id once, under the tig's endpoint pair.
IdsSequential ==
    /\ Len(fasta) = tig_counter
    /\ Len(tig_nodes) = tig_counter
    /\ \A i \in 1 .. tig_counter :
          /\ fasta[i].id = i - 1
          /\ tig_nodes[i].id = i - 1
          /\ EntriesOf(i - 1) # {}
          /\ \A e \in EntriesOf(i - 1) :
                e[1] = normalize_u64_2tuple(<<fasta[i].begin, fasta[i].end>>)
          /\ Cardinality(EntriesOf(i - 1)) = 1
    /\ \A key \in DOMAIN ends2tig : \A j \in DOMAIN ends2tig[key] :
          ends2tig[key][j] \in 0 .. (tig_counter - 1)

\* The records written so far are kept as they are.
NeverRenumbered ==
    /\ tig_counter' >= tig_counter
    /\ \A i \in DOMAIN fasta :
          /\ i \in DOMAIN fasta'
          /\ fasta'[i] = fasta[i]
          /\ tig_nodes'[i] = tig_nodes[i]

\* C16: tig ids are sequential in emission order and never renumbered; a
\* discarded seed consumes no id; the id of the FASTA header is the id of the
\* Tig node and the id stored in ends2tig.
C16_SequentialIds == [](IdsSequential) /\ [][NeverRenumbered]_vars

\* Two tigs were emitted and then a seed was discarded.
C16_Witness ==
    /\ pc = "seed"
    /\ tig_counter >= 2
    /\ Len(walk) = 1
    /\ tig_walks[tig_counter] # walk
    /\ \A i \in DOMAIN tig_walks : seed # tig_walks[i][1]

-----------------------------------------------------------------------------
(* main: the files it opens and the stages it runs.                         *)

\* The paths of the command line: params.solidity, params.kmer, params.fasta
\* and params.gfa.
Files == {"solidity", "kmer", "fasta", "gfa"}

OutputFiles == {"kmer", "fasta", "gfa"}

Ok == [error |-> "none", filename |-> "none"]

Err(error, filename) == [error |-> error, filename |-> filename]

with_context_ignored(f, error, unopenable) == Ok

\* std::fs::File::open / File::create followed by
\* .with_context(|| Error::... { filename })?
with_context(f, error, unopenable) ==
    IF f \in unopenable THEN Err(error, f) ELSE Ok

\* writeln!(writer, ..)? on the writer of file f: an I/O error of the writer
\* is returned as it is.
writeln(f, unwritable) == IF f \in unwritable THEN Err("io", f) ELSE Ok

\* main returns the error e.
Abort(e) == main_run' = [main_run EXCEPT !.result = e]

\* The file f is open and the stage that uses it has run.
StageDone(f, stage) ==
    main_run' = [main_run EXCEPT !.opened = Append(@, f),
                                 !.stages = Append(@, stage)]

MainUnchanged ==
    UNCHANGED <<solidity, max_deep, oracle, kmer, visited, seed, current,
                begin, tig, walk, nb_pred, nb_succ, tig_counter, fasta,
                tig_walks, ends2tig, ext_nodes, tig_nodes, unitig_graph, links,
                lap, kmer_gfa, query, answer>>

InitMain ==
    /\ solidity = {}
    /\ max_deep = 1
    /\ oracle = "utils.rs"
    /\ pc = "read_solidity"
    /\ ExtractionStart
    /\ \E no_open \in SUBSET Files : \E no_write \in SUBSET OutputFiles :
          main_run = [NoRun EXCEPT !.unopenable = no_open,
                                   !.unwritable = no_write,
                                   !.result = "running"]
    /\ query = NoQuery
    /\ answer = None

\* Lines 61-72: the solidity file is opened and read.
ReadSolidity ==
    /\ pc = "read_solidity"
    /\ LET r == with_context("solidity", "CantReadFile", main_run.unopenable)
       IN  IF r # Ok
           THEN Abort(r) /\ pc' = "exit"
           ELSE StageDone("solidity", "read_solidity") /\ pc' = "kmer_graph"
    /\ MainUnchanged

\* A stage that creates the output file f and writes to it.
WritingStage(f, stage, next) ==
    LET r == with_context(f, "CantWriteFile", main_run.unopenable)
        w == writeln(f, main_run.unwritable)
    IN  IF r # Ok
        THEN Abort(r) /\ pc' = "exit"
        ELSE IF w # Ok
        THEN /\ main_run' = [main_run EXCEPT !.opened = Append(@, f),
                                             !.result = w]
             /\ pc' = "exit"
        ELSE StageDone(f, stage) /\ pc' = next

\* Lines 76-168: k-mer graph building.
KmerGraphBuilding ==
    /\ pc = "kmer_graph"
    /\ WritingStage("kmer", "kmer_graph", "unitig_building")
    /\ MainUnchanged

\* Lines 172-228: unitig building (no file is used).
UnitigBuilding ==
    /\ pc = "unitig_building"
    /\ main_run' = [main_run EXCEPT !.stages = Append(@, "unitig_building")]
    /\ pc' = "write_unitig"
    /\ MainUnchanged

\* Lines 230-249: the unitigs are written.
WriteUnitigFasta ==
    /\ pc = "write_unitig"
    /\ WritingStage("fasta", "write_unitig", "unitig_graph")
    /\ MainUnchanged

\* Lines 251-333: the unitig graph is written.
UnitigGraphWriting ==
    /\ pc = "unitig_graph"
    /\ WritingStage("gfa", "unitig_graph", "return")
    /\ MainUnchanged

\* Line 335: Ok(())
ReturnOk ==
    /\ pc = "return"
    /\ Abort(Ok)
    /\ pc' = "exit"
    /\ MainUnchanged

NextMain ==
    \/ ReadSolidity
    \/ KmerGraphBuilding
    \/ UnitigBuilding
    \/ WriteUnitigFasta
    \/ UnitigGraphWriting
    \/ ReturnOk

SpecMain == InitMain /\ [][NextMain]_vars

\* The files main opens, in the order of the program, and the stages that
\* are complete before each of them is opened.
FileOrder == <<"solidity", "kmer", "fasta", "gfa">>

StagesBefore(f) ==
    CASE f = "solidity" -> <<>>
      [] f = "kmer"     -> <<"read_solidity">>
      [] f = "fasta"    -> <<"read_solidity", "kmer_graph", "unitig_building">>
      [] f = "gfa"      -> <<"read_solidity", "kmer_graph", "unitig_building",
                             "write_unitig">>

Finished == pc = "exit"

\* C17: a run ends in success only if every file open succeeded; a failed open
\* of the input ends the run with CantReadFile naming it, a failed creation of
\* an output (reached without a write error before it) with CantWriteFile
\* naming it, and in both cases no later stage runs and no later file is
\* opened.
C17_OpenErrorsAbort ==
    Finished =>
        /\ main_run.result = Ok =>
              /\ main_run.unopenable = {}
              /\ main_run.opened = FileOrder
        /\ \A i \in DOMAIN FileOrder :
              LET f == FileOrder[i]
              IN  (/\ f \in main_run.unopenable
                   /\ main_run.opened = SubSeq(FileOrder, 1, i - 1)
                   /\ main_run.result.error # "io") =>
                      /\ main_run.result
                            = Err(IF f = "solidity" THEN "CantReadFile"
                                                    ELSE "CantWriteFile", f)
                      /\ main_run.stages = StagesBefore(f)
        /\ main_run.result.error \in {"CantReadFile", "CantWriteFile"} =>
              /\ main_run.result.filename \in main_run.unopenable
              /\ main_run.stages = StagesBefore(main_run.result.filename)
              /\ Len(main_run.opened) < Len(FileOrder)

\* A run whose input opened and whose FASTA file could not be created ended.
C17_Witness ==
    /\ Finished
    /\ main_run.result = Err("CantWriteFile", "fasta")
    /\ main_run.opened = <<"solidity", "kmer">>

-----------------------------------------------------------------------------
(* Properties of the extension loops of build_tig.                          *)

\* An iteration of the left loop, of the right loop, has run to its end.
LeftStepTaken == pc = "left" /\ pc' = "left"

RightStepTaken == pc = "right" /\ pc' = "right"

\* Both neighbour sets of x are present and hold exactly one k-mer.
SingleOnBothSides(x) ==
    /\ Size(predecessors(oracle, x)) = 1
    /\ Size(successors(oracle, x)) = 1

\* C18: an extension step of build_tig, to the left or to the right, is taken
\* from current only when predecessors(current) and successors(current) both
\* return exactly one candidate; none is taken when the neighbour set of the
\* other side is absent.
C18_StepOnlyIfSingleBothSides ==
    [][(LeftStepTaken \/ RightStepTaken) => SingleOnBothSides(current)]_vars


\* The edge the left loop, the right loop, crosses from current.
LeftEdge == predecessors(oracle, current)

RightEdge == successors(oracle, current)

First(seq, n) == SubSeq(seq, 1, n)

Last(seq, n) == SubSeq(seq, Len(seq) - n + 1, Len(seq))

\* The steps add n(d) characters for an edge of depth d: on the left the first
\* n(d) characters of the predecessor, on the right the last n(d) characters of
\* the successor. Steps beyond MaxTigLen characters are not recorded.
StepsAdd(n(_)) ==
    /\ (LeftStepTaken /\ Len(tig) + K <= MaxTigLen) =>
          tig' = First(kmer2seq(LeftEdge.kmers[1], K), n(LeftEdge.deep)) \o tig
    /\ (RightStepTaken /\ Len(tig) + K <= MaxTigLen) =>
          tig' = tig \o Last(kmer2seq(RightEdge.kmers[1], K), n(RightEdge.deep))

\* The tig starts as the k characters of the seed, and the tig that is emitted
\* is written with its length as LN.
SeedAndHeader ==
    /\ (pc = "seed" /\ pc' = "left") => tig' = kmer2seq(seed', K)
    /\ (BuildTigReturns /\ tig_counter' # tig_counter) =>
          /\ fasta'[Len(fasta')].seq = tig
          /\ fasta'[Len(fasta')].len = Len(tig)

\* C19 as stated: a step that crosses an edge of depth d adds exactly k - d
\* characters to the tig (the first k - d of the predecessor, the last k - d of
\* the successor), and LN is the length of the emitted tig.
C19_StepAddsKMinusDepth ==
    [][StepsAdd(LAMBDA d : K - d) /\ SeedAndHeader]_vars

\* C19 amended: a step that crosses an edge of depth d adds exactly d
\* characters to the tig (the first d of the predecessor, the last d of the
\* successor), so the emitted tig length is k plus the sum of d over the
\* steps, and LN is that length.
C19_StepAddsDepth ==
    [][StepsAdd(LAMBDA d : d) /\ SeedAndHeader]_vars

\* A tig was emitted whose walk crossed an edge of depth 1 and an edge of
\* depth 2.
C19_Witness ==
    /\ tig_counter > 0
    /\ LET w == tig_walks[tig_counter]
           r == fasta[tig_counter]
       IN  /\ Len(w) >= 3
           /\ r.len > K + (Len(w) - 1)
           /\ r.len < K + 2 * (Len(w) - 1)

-----------------------------------------------------------------------------
(* Properties of the edges of the unitig graph.                             *)

\* The tag of the edge between the i-th tig and the endpoint x.
EndpointTag(i, x) == edge_weight(unitig_graph, tig_nodes[i], NodeKmer(x))

\* C20: the edge of a tig whose begin and end are the same endpoint is tagged
\* Both; a tig with begin # end has its edge to Endpoint(begin) tagged Begin
\* and its edge to Endpoint(end) tagged End.
C20_EdgeTags ==
    \A i \in DOMAIN fasta :
        /\ has_edge(unitig_graph, tig_nodes[i], NodeKmer(fasta[i].begin))
        /\ has_edge(unitig_graph, tig_nodes[i], NodeKmer(fasta[i].end))
        /\ IF fasta[i].begin = fasta[i].end
           THEN EndpointTag(i, fasta[i].begin) = "Both"
           ELSE /\ EndpointTag(i, fasta[i].begin) = "Begin"
                /\ EndpointTag(i, fasta[i].end) = "End"

-----------------------------------------------------------------------------
(* Properties of the walks of the emitted tigs.                             *)

\* The k-mer x has exactly one predecessor, p, and exactly one successor, n.
InnerVertex(p, x, n) ==
    /\ predecessors(oracle, x) \in {Some(<<p>>, d) : d \in 1 .. max_deep}
    /\ successors(oracle, x) \in {Some(<<n>>, d) : d \in 1 .. max_deep}

\* C21: every k-mer of the walk of an emitted tig, other than the first and
\* the last, has exactly one predecessor and exactly one successor, which are
\* the previous and the next k-mer of the walk.
C21_NonBranchingPath ==
    \A i \in DOMAIN tig_walks :
        LET w == tig_walks[i]
        IN  Len(w) < MaxTigLen =>
                \A j \in 2 .. (Len(w) - 1) : InnerVertex(w[j - 1], w[j], w[j + 1])

\* The walk w was extended to the left of w[s] and to the right of it: each
\* inner k-mer at or before s has the previous k-mer as its only predecessor,
\* each inner k-mer at or after s has the next k-mer as its only successor.
WalkedFrom(w, s) ==
    \A j \in 2 .. (Len(w) - 1) :
        /\ j <= s => predecessors(oracle, w[j]).kmers = <<w[j - 1]>>
        /\ j >= s => successors(oracle, w[j]).kmers = <<w[j + 1]>>

\* C21 (as the code has it): every inner k-mer of the walk of an emitted tig
\* has exactly one predecessor and exactly one successor; on the side the walk
\* left it by, that neighbour is the adjacent k-mer of the walk, and with
\* max_deep = 1 it is so on both sides.
C21_InnerDegreeOne ==
    \A i \in DOMAIN tig_walks :
        LET w == tig_walks[i]
        IN  Len(w) < MaxTigLen =>
                /\ \A j \in 2 .. (Len(w) - 1) :
                       /\ Size(predecessors(oracle, w[j])) = 1
                       /\ Size(successors(oracle, w[j])) = 1
                /\ \E s \in 1 .. Len(w) : WalkedFrom(w, s)
                /\ max_deep = 1 =>
                       \A j \in 2 .. (Len(w) - 1) :
                           InnerVertex(w[j - 1], w[j], w[j + 1])

\* A tig was emitted whose walk has two inner k-mers, one of them with a
\* predecessor that is not the previous k-mer of the walk.
C21_Witness ==
    \E i \in DOMAIN tig_walks :
        LET w == tig_walks[i]
        IN  /\ Len(w) >= 4
            /\ Len(w) < MaxTigLen
            /\ \E j \in 2 .. (Len(w) - 1) :
                   predecessors(oracle, w[j]).kmers # <<w[j - 1]>>

-----------------------------------------------------------------------------
(* Properties of the augmentation of the unitig graph.                      *)

\* canonical(n) for every n in successors(e) \cup predecessors(e), with the
\* oracle add_missing_edge is given.
CanonicalNeighbours(e) ==
    {cannonical_of[n] :
        n \in Returned(successors("graph/kmer.rs", e))
              \cup Returned(predecessors("graph/kmer.rs", e))}

EndpointNodes(g) == {n \in g.nodes : n.kind = "Kmer"}

\* The edges of g with a tig at one end, with their tags.
TigEdges(g) ==
    {<<e, g.edges[e]>> : e \in {d \in DOMAIN g.edges :
                                    \E n \in d : n.kind = "Tig"}}

\* After add_missing_edge two endpoint nodes are joined, by an edge tagged
\* Kmer, exactly when one is the canonical form of a neighbour of the other.
KmerEdgesComplete ==
    pc \in {"links", "done"} =>
        \A e, c \in EndpointNodes(unitig_graph) :
            (/\ has_edge(unitig_graph, e, c)
             /\ edge_weight(unitig_graph, e, c) = "Kmer")
            <=> (c.id \in CanonicalNeighbours(e.id)
                 \/ e.id \in CanonicalNeighbours(c.id))

\* add_missing_edge adds no node, and leaves the edges of the tigs alone.
AugmentationKeepsTigs ==
    (pc = "augment" /\ pc' = "links") =>
        /\ unitig_graph'.nodes = unitig_graph.nodes
        /\ TigEdges(unitig_graph') = TigEdges(unitig_graph)

\* C22: after add_missing_edge there is an Endpoint(e) - Endpoint(c) edge,
\* tagged Kmer, if and only if c = canonical(n) for some n in
\* successors(e) \cup predecessors(e) or e = canonical(m) for some m in
\* successors(c) \cup predecessors(c); the augmentation adds no node and
\* changes no Tig - Endpoint edge or its tag.
C22_MissingEdges == [](KmerEdgesComplete) /\ [][AugmentationKeepsTigs]_vars

\* The augmentation has joined two endpoints of which only one finds the
\* other among its neighbours, and has left two other endpoints apart.
C22_Witness ==
    /\ pc = "links"
    /\ \E e, c \in EndpointNodes(unitig_graph) :
           /\ has_edge(unitig_graph, e, c)
           /\ c.id \in CanonicalNeighbours(e.id)
           /\ e.id \notin CanonicalNeighbours(c.id)
    /\ \E e, c \in EndpointNodes(unitig_graph) :
           e # c /\ ~has_edge(unitig_graph, e, c)

-----------------------------------------------------------------------------
(* The oracle of graph/kmer.rs, one loop iteration at a time, for every      *)
(* max_deep the command line accepts (cli.rs 60-66: any u8, not compared to *)
(* k).  The arithmetic is that of u8 and u64.                                *)

\* edge_threshold values explored: 1 .. the default of the command line.
DeepsAccepted == 1 .. MaxDeep

NoCall == [op |-> "none", x |-> 0, deep |-> 0]

\* `self.k - (deep + 1)` on u8 (line 113) goes below zero.
k_minus_depth_underflows(deep) == K < deep + 1

\* The candidates of loop index deep of successors hold deep + 1 nucleotides
\* of subkmer[deep] under a prefix; they stay within 2k bits iff deep + 1 <= k.
succ_candidates_wide(x, deep) ==
    LET prefix == BitAnd(x, build_kmermasks(deep, K)) * 4^(deep + 1)
    IN  {prefix + s : s \in 0 .. (4^(deep + 1) - 1)}

\* k - ovl_len, the overlap write_kmer_graph writes on an L line (lines 196, 215).
overlap(ovl_len) == K - ovl_len

InitDeep ==
    /\ solidity \in SubsetsUpTo(MaxSolidDeep)
    /\ max_deep \in DeepsAccepted
    /\ oracle = "graph/kmer.rs"
    /\ pc = "call"
    /\ ExtractionStart
    /\ main_run = NoRun
    /\ query = NoCall
    /\ answer = None

DeepUnchanged ==
    UNCHANGED <<solidity, max_deep, oracle, kmer, visited, seed, current,
                begin, tig, walk, nb_pred, nb_succ, tig_counter, fasta,
                tig_walks, ends2tig, ext_nodes, tig_nodes, unitig_graph,
                links, lap, kmer_gfa, main_run>>

\* successors(x) or predecessors(x) is called.
CallOracle ==
    /\ pc = "call"
    /\ \E op \in {"successors", "predecessors"}, x \in Kmers :
          query' = [op |-> op, x |-> x, deep |-> 0]
    /\ pc' = "loop"
    /\ UNCHANGED answer
    /\ DeepUnchanged

\* `for deep in 0..self.max_deep` is exhausted: None.
LoopExhausted ==
    /\ pc = "loop"
    /\ query.deep >= max_deep
    /\ answer' = None
    /\ pc' = "returned"
    /\ UNCHANGED query
    /\ DeepUnchanged

\* One iteration whose arithmetic is in range (deep + 1 <= k): the candidates
\* are probed; a non-empty exist_kmer is returned, an empty one moves on.
LoopIteration ==
    /\ pc = "loop"
    /\ query.deep < max_deep
    /\ ~k_minus_depth_underflows(query.deep)
    /\ LET skip(n) == IF query.op = "successors"
                      THEN succ_skip(oracle, query.x, n)
                      ELSE pred_skip(oracle, query.x, n)
           cands == IF query.op = "successors"
                    THEN succ_candidates(query.x, query.deep)
                    ELSE pred_candidates(query.x, query.deep)
           keep(n) == ~skip(n) /\ is_solid(n)
           exist_kmer == SelectSeq(cands, keep)
       IN  IF exist_kmer # <<>>
           THEN /\ answer' = Some(exist_kmer, query.deep + 1)
                /\ pc' = "returned"
                /\ UNCHANGED query
           ELSE /\ query' = [query EXCEPT !.deep = @ + 1]
                /\ UNCHANGED <<answer, pc>>
    /\ DeepUnchanged

\* predecessors at deep + 1 > k: `self.k - (deep + 1)` overflows u8.  A build
\* with overflow checks panics; one without them goes on with the wrapped
\* shift amount.  The call is not followed further in either case.
PredecessorsUnderflow ==
    /\ pc = "loop"
    /\ query.deep < max_deep
    /\ query.op = "predecessors"
    /\ k_minus_depth_underflows(query.deep)
    /\ pc' \in {"panic", "wrapped"}
    /\ UNCHANGED <<query, answer>>
    /\ DeepUnchanged

\* successors at deep + 1 > k: the suffixes of subkmer[deep] are wider than a
\* k-mer, and is_solid is asked about values outside the k-mer space.  The
\* call is not followed further.
SuccessorsOutOfSpace ==
    /\ pc = "loop"
    /\ query.deep < max_deep
    /\ query.op = "successors"
    /\ k_minus_depth_underflows(query.deep)
    /\ pc' = "out_of_space"
    /\ UNCHANGED <<query, answer>>
    /\ DeepUnchanged

NextDeep ==
    \/ CallOracle
    \/ LoopExhausted
    \/ LoopIteration
    \/ PredecessorsUnderflow
    \/ SuccessorsOutOfSpace

SpecDeep == InitDeep /\ [][NextDeep]_vars

\* The candidates the running iteration probes.
Probed ==
    IF query.op = "successors"
    THEN succ_candidates_wide(query.x, query.deep)
    ELSE IF k_minus_depth_underflows(query.deep) THEN {}
         ELSE Range(pred_candidates(query.x, query.deep))

\* C23: for every max_deep the program accepts and every k-mer x,
\* successors(x) and predecessors(x) complete without arithmetic underflow
\* (k - (deep + 1) never goes below 0), every candidate they probe or return
\* has the bits above 2k-1 zero, and the overlap k - depth written to the
\* k-mer GFA is at least 1.
C23_OracleTotal ==
    /\ pc \notin {"panic", "wrapped", "out_of_space"}
    /\ (pc = "loop" /\ query.deep < max_deep) =>
          /\ ~k_minus_depth_underflows(query.deep)
          /\ \A c \in Probed : c \in Kmers
    /\ (pc = "returned" /\ answer.some) =>
          /\ \A n \in Returned(answer) : n \in Kmers
          /\ overlap(answer.deep) >= 1

-----------------------------------------------------------------------------
(* Relations between successors and predecessors of graph/kmer.rs.          *)

\* The reverse complements of the k-mers an Option<(Vec<u64>, u8)> holds.
RevcompReturned(r) == {revcomp_of[n] : n \in Returned(r)}

\* C24: successors(revcomp(x, k)) and predecessors(x) are absent together,
\* return the same depth, and the candidates of the first are exactly the
\* reverse complements of the candidates of the second.
C24_OracleStrandSymmetry ==
    query.op = "predecessors" =>
        LET p == answer["graph/kmer.rs"]
            s == successors("graph/kmer.rs", revcomp_of[query.x])
        IN  /\ s.some = p.some
            /\ s.deep = p.deep
            /\ Returned(s) = RevcompReturned(p)

\* predecessors(x) skipped a gap and returned two k-mers, and none of them is
\* the reverse complement of one of them.
C24_Witness ==
    /\ query.op = "predecessors"
    /\ answer["graph/kmer.rs"].some
    /\ answer["graph/kmer.rs"].deep = 2
    /\ Len(answer["graph/kmer.rs"].kmers) = 2
    /\ RevcompReturned(answer["graph/kmer.rs"])
           \cap Returned(answer["graph/kmer.rs"]) = {}

-----------------------------------------------------------------------------
(* Properties of the link sets of the unitig graph.                         *)

flip(sign) == IF sign = "+" THEN "-" ELSE "+"

\* The same link read from its other end.
dual(l) == <<l[3], flip(l[4]), l[1], flip(l[2])>>

ClosedUnderDual(S) == \A l \in S : dual(l) \in S

\* C25: the link set returned by tig_kmer_tig, and the one returned by
\* tig_kmer_kmer_tig, holds (v, flip(s2), u, flip(s1)) whenever it holds
\* (u, s1, v, s2).
C25_LinkDuality ==
    pc = "done" =>
        /\ ClosedUnderDual(links.tig_kmer_tig)
        /\ ClosedUnderDual(links.tig_kmer_kmer_tig)

\* Both sets hold a link between two different tigs, and one of them holds a
\* link that is not its own dual.
C25_Witness ==
    /\ pc = "done"
    /\ \E l \in links.tig_kmer_tig : l[1] # l[3]
    /\ \E l \in links.tig_kmer_kmer_tig : l[1] # l[3] /\ dual(l) # l

-----------------------------------------------------------------------------
(* Reciprocity of the two directions of the oracle of graph/kmer.rs.        *)

\* The opposite direction of the query that was made.
Opposite(n) ==
    IF query.op = "successors" THEN predecessors("graph/kmer.rs", n)
    ELSE successors("graph/kmer.rs", n)

\* The answer of the opposite direction for n has depth 1 and holds x.
AnswersBack(x, n) ==
    /\ Opposite(n).some
    /\ Opposite(n).deep = 1
    /\ x \in Returned(Opposite(n))

\* C26: for a solid k-mer x, when successors(x) returns n at depth 1,
\* predecessors(n) returns depth 1 and holds x, and when predecessors(x)
\* returns p at depth 1, successors(p) returns depth 1 and holds x.
C26_DepthOneMutual ==
    (/\ IsNeighbourQuery
     /\ is_solid(query.x)
     /\ answer["graph/kmer.rs"].some
     /\ answer["graph/kmer.rs"].deep = 1) =>
        \A n \in Returned(answer["graph/kmer.rs"]) :
            AnswersBack(query.x, n)

\* A solid k-mer, asked through the strand that is not stored, has a
\* predecessor at depth 1 although max_deep allows more.
C26_Witness ==
    /\ query.op = "predecessors"
    /\ is_solid(query.x)
    /\ cannonical_of[query.x] # query.x
    /\ max_deep > 1
    /\ answer["graph/kmer.rs"].some
    /\ answer["graph/kmer.rs"].deep = 1

\* The reciprocity extended to every depth, which the oracle does not have:
\* a k-mer returned for a solid x at depth 2 can have a neighbour at depth 1
\* and then does not return x.
ReciprocalAtEveryDepth ==
    (/\ IsNeighbourQuery
     /\ is_solid(query.x)
     /\ answer["graph/kmer.rs"].some) =>
        \A n \in Returned(answer["graph/kmer.rs"]) :
            query.x \in Returned(Opposite(n))

====
